---- MODULE Spec2Model ----
(***************************************************************************)
(* Seat booking core of Get-your-Popcorn: the Show documents with their    *)
(* occupiedSeats object, the Booking documents produced by the Booking     *)
(* mongoose model, the booking flow that claims seats and persists a       *)
(* Booking, the payment confirmation, the Inngest function                 *)
(* releaseSeatsAndDeleteBooking triggered by app/checkpayment, and the     *)
(* getUserBookings controller.                                             *)
(***************************************************************************)
EXTENDS Integers, Sequences, FiniteSets, TLC

\* ------------------------------------------------------------------ bounds

\* Number of createBooking requests (and so of Booking ids) in a run.
MaxBookings == 2

\* Number of times Inngest re-runs a failed check-payment-status step.
MaxRetries == 1

\* Number of attempts of a TMDB request of addShow that may fail.
MaxFetchFailures == 1

\* ------------------------------------------------------------- the inputs

Users == {"u1", "u2"}
Shows == {"X", "Y"}
\* The seat selections a booking request may carry (non-empty, no duplicates).
SeatLists == {<<"A1">>, <<"A2">>, <<"A1", "A2">>}

\* showPrice of the two Show documents.
ShowPrice == [s \in Shows |-> IF s = "X" THEN 200 ELSE 150]

\* The ids of the requests, and of their Bookings (the specification of the
\* seat traffic admits one request more than the others).
BookingIds == 1 .. MaxBookings + 1

\* A booking id carried by an app/checkpayment event for which no Booking
\* document exists.
StaleId == MaxBookings + 2

EventIds == BookingIds \cup {StaleId}

Range(f) == {f[i] : i \in DOMAIN f}

\* ------------------------------------------------- JavaScript values (isPaid)

\* A JavaScript boolean.
JSBoolean(v) == [kind |-> "boolean", val |-> v]

\* A JavaScript array of one element, [v].
JSArray(v) == [kind |-> "array", val |-> v]

\* ToBoolean: every object, an array included, is truthy; a boolean is itself.
Truthy(x) == IF x.kind = "boolean" THEN x.val ELSE TRUE

\* ----------------------------------------------------- the Booking model

\* The schema declares isPaid as {type: Boolean}.
CastIsPaid_Boolean(v) == JSBoolean(v)

\* isPaid: {type: Array, default: false}: mongoose casts a value that is not
\* an array to a one-element array, the default included ([].concat(false)).
CastIsPaid(v) == JSArray(v)

\* The schema options are {timestamp: true}: mongoose knows "timestamps" only,
\* so no createdAt (nor updatedAt) path exists and none is stored (0: absent).
SchemaCreatedAt(now) == 0

\* Booking.create({user, show, amount, bookedSeats}) at (logical) time now.
NewBooking(user, show, amount, bookedSeats, now) ==
    [user |-> user, show |-> show, amount |-> amount,
     bookedSeats |-> bookedSeats, isPaid |-> CastIsPaid(FALSE),
     createdAt |-> SchemaCreatedAt(now)]

VARIABLES
    occupiedSeats,  \* Show documents: show -> (seat label -> holder id)
    bookings,       \* Booking documents: id -> document
    bookingLog,     \* ids of the Bookings ever inserted, in insertion order
    req,            \* createBooking requests: id -> [pc, user, show, seats, ...]
    run,            \* releaseSeatsAndDeleteBooking runs: booking id -> run
    lastQuery,      \* the last getUserBookings response
    http,           \* the request the Express app is dispatching
    showDocs,       \* Show documents of the catalogue, in insertion order
    movieDocs,      \* ids of the Movie documents
    showAdded,      \* movie ids of the app/show.added events sent
    resp,           \* the last response of a show controller
    calls,          \* the calls of the show controllers being served: slot -> call
    clock,          \* Date.now(), in minutes
    created,        \* booking id -> the instant of its Booking.create
    wake,           \* event id -> the instant its run sleeps until
    zone,           \* the offset from UTC, in minutes, of the zone the server runs in
    fetch,          \* the makeRequestWithRetry calls: request -> call
    favorites,      \* user -> privateMetadata.favorites at Clerk
    favCalls,       \* the updateFavorite calls, in order of arrival
    deleted         \* the deletes of the release, applied to an input

vars == <<occupiedSeats, bookings, bookingLog, req, run, lastQuery,
          http, showDocs, movieDocs, showAdded, resp, calls,
          clock, created, wake, zone, fetch, favorites, favCalls, deleted>>

\* The instants of the deferred release, and the zone of the server's clock.
timing == <<clock, created, wake, zone>>

\* The state of the TMDB requests and of the favorites.
side == <<fetch, favorites, favCalls, deleted>>

\* The state of the HTTP side: routing and the show catalogue.
web == <<http, showDocs, movieDocs, showAdded, resp, calls>>

NoQuery == [user |-> "", bookings |-> <<>>]

\* No request is being dispatched.
NoRequest == [method |-> "", path |-> <<>>, layer |-> 0, handler |-> ""]

\* The delay of the release check: 10 * 60 * 1000 ms, in minutes.
SleepMinutes == 10

\* The sleep of the release function does not last: 10 * 60 ms is no minute.
TenMinutesLater_Millis(now) == now

\* tenMinutesLater: new Date(Date.now() + 10 * 60 * 1000).
TenMinutesLater(now) == now + SleepMinutes

\* The deletes of the release have not been applied.
NoDeletes == [op |-> "", occ |-> <<>>, seats |-> <<>>, once |-> <<>>, twice |-> <<>>]

\* privateMetadata of a user who never had a favorite: no favorites key.
NoFavorites == [present |-> FALSE, list |-> <<>>]

\* The offsets from UTC, in minutes, of the zones a server runs in.
TimezoneOffsets == {0, 330}

\* The slots in which the calls of the show controllers are served: two
\* calls at a time, each between its awaits.
CallSlots == {1, 2}

\* The two TMDB requests of addShow: the movie's details and its credits.
RequestNames == {"details", "credits"}

\* The TMDB requests of the calls: those of each slot.
Requests == CallSlots \X RequestNames

\* No call of a show controller is served in a slot.
NoCall == [api |-> "", pc |-> "free", movieId |-> "",
           showsInput |-> [present |-> FALSE, list |-> <<>>],
           showPrice |-> 0, now |-> 0, found |-> <<>>]

\* makeRequestWithRetry has not been called.
NoFetch == [pc |-> "idle", maxRetries |-> 0, initialDelay |-> 0, retries |-> 0,
            attempts |-> 0, delays |-> <<>>, error |-> "", after |-> 0]

\* No show controller has answered yet.
NoResponse == [api |-> "", status |-> 0, args |-> <<>>, body |-> <<>>]

\* The state after construction of the server, running in the zone z: empty
\* collections, no request served, no call in progress.
InitIn(z) ==
    /\ occupiedSeats = [s \in Shows |-> <<>>]
    /\ bookings = <<>>
    /\ bookingLog = <<>>
    /\ req = <<>>
    /\ run = <<>>
    /\ lastQuery = NoQuery
    /\ http = NoRequest
    /\ showDocs = <<>>
    /\ movieDocs = {}
    /\ showAdded = <<>>
    /\ resp = NoResponse
    /\ calls = [s \in CallSlots |-> NoCall]
    /\ clock = 0
    /\ created = <<>>
    /\ wake = <<>>
    /\ zone = z
    /\ fetch = [r \in Requests |-> NoFetch]
    /\ favorites = [u \in Users |-> NoFavorites]
    /\ favCalls = <<>>
    /\ deleted = NoDeletes

\* The server in UTC: bookings, routes, favorites and TMDB requests read no
\* local time.
Init == InitIn(0)

\* The server in any of the zones: addShow reads local times.
InitZones == \E z \in TimezoneOffsets : InitIn(z)

\* ------------------------------------------------ Seat Reservation Engine

\* The requested labels that are already keys of occupiedSeats.
Conflicts(occ, seats) == Range(seats) \cap DOMAIN occ

\* occupiedSeats with every label of seats mapped to holder.
InsertSeats(occ, seats, holder) ==
    [l \in DOMAIN occ \cup Range(seats) |->
        IF l \in Range(seats) THEN holder ELSE occ[l]]

\* claimSeats inserts the free labels of the request even when another
\* label of it is taken (a partial claim).
ClaimResult_Partial(occ, seats, holder) ==
    IF Conflicts(occ, seats) = {}
    THEN [ok |-> TRUE, occ |-> InsertSeats(occ, seats, holder)]
    ELSE [ok |-> FALSE,
          occ |-> [l \in DOMAIN occ \cup Range(seats) |->
                      IF l \in DOMAIN occ THEN occ[l] ELSE holder]]

\* claimSeats claims without looking at occupiedSeats.
ClaimResult_NoCheck(occ, seats, holder) ==
    [ok |-> TRUE, occ |-> InsertSeats(occ, seats, holder)]

\* claimSeats(showId, seatLabels, holderId) as one atomic update: all of the
\* labels are inserted, or none is and the call fails (SeatsUnavailableError).
ClaimResult(occ, seats, holder) ==
    IF Conflicts(occ, seats) = {}
    THEN [ok |-> TRUE, occ |-> InsertSeats(occ, seats, holder)]
    ELSE [ok |-> FALSE, occ |-> occ]

\* The release empties the show's map (show.occupiedSeats = {}).
DeleteSeats_All(occ, seats) == [l \in {} |-> ""]

\* The forEach stops after the first label it has deleted.
DeleteSeats_OnePerCall(occ, seats) ==
    LET present == {i \in DOMAIN seats : seats[i] \in DOMAIN occ}
        first == {i \in present : \A k \in present : i <= k}
    IN  [l \in DOMAIN occ \ {seats[i] : i \in first} |-> occ[l]]

\* forEach(seat => delete show.occupiedSeats[seat]): deleting an absent key
\* is not an error.
DeleteSeats(occ, seats) == [l \in DOMAIN occ \ Range(seats) |-> occ[l]]

\* ------------------------------------------------------- Booking Ledger

\* createBooking(userId, showId, seatLabels) is called: the amount is
\* computed from the show's price, the claim is still to come.
CreateBookingCall(u, s, seats) ==
    /\ req' = Append(req, [pc |-> "claim", user |-> u, show |-> s, seats |-> seats,
                           amount |-> ShowPrice[s] * Len(seats)])
    /\ UNCHANGED <<occupiedSeats, bookings, bookingLog, run, lastQuery>>
    /\ UNCHANGED web
    /\ UNCHANGED side
    /\ UNCHANGED timing

\* The request's claimSeats call: the store's atomic update.
ClaimSeats(b) ==
    /\ b \in DOMAIN req
    /\ req[b].pc = "claim"
    /\ LET r == ClaimResult(occupiedSeats[req[b].show], req[b].seats, req[b].user)
       IN  /\ occupiedSeats' = [occupiedSeats EXCEPT ![req[b].show] = r.occ]
           /\ req' = [req EXCEPT ![b].pc = IF r.ok THEN "persist" ELSE "rejected"]
    /\ UNCHANGED <<bookings, bookingLog, run, lastQuery>>
    /\ UNCHANGED web
    /\ UNCHANGED side
    /\ UNCHANGED timing

\* The Booking is persisted (Booking.create).
PersistBooking(b) ==
    /\ b \in DOMAIN req
    /\ req[b].pc = "persist"
    /\ bookings' = bookings @@ (b :> NewBooking(req[b].user, req[b].show,
                        req[b].amount, req[b].seats, Len(bookingLog) + 1))
    /\ bookingLog' = Append(bookingLog, b)
    /\ req' = [req EXCEPT ![b].pc = "schedule"]
    /\ UNCHANGED <<occupiedSeats, run, lastQuery>>
    /\ UNCHANGED web
    /\ UNCHANGED side
    /\ created' = created @@ (b :> clock)
    /\ UNCHANGED <<clock, wake, zone>>

\* Persisting the Booking fails after the claim succeeded.
PersistFails(b) ==
    /\ b \in DOMAIN req
    /\ req[b].pc = "persist"
    /\ req' = [req EXCEPT ![b].pc = "rollback"]
    /\ UNCHANGED <<occupiedSeats, bookings, bookingLog, run, lastQuery>>
    /\ UNCHANGED web
    /\ UNCHANGED side
    /\ UNCHANGED timing

\* The error reaches the caller with the seats still claimed.
Rollback_NoRelease(b) ==
    /\ b \in DOMAIN req
    /\ req[b].pc = "rollback"
    /\ req' = [req EXCEPT ![b].pc = "error"]
    /\ UNCHANGED <<occupiedSeats, bookings, bookingLog, run, lastQuery>>
    /\ UNCHANGED web
    /\ UNCHANGED side
    /\ UNCHANGED timing

\* The rollback of a claim whose Booking could not be persisted: the seats are
\* released before the error reaches the caller.
Rollback(b) ==
    /\ b \in DOMAIN req
    /\ req[b].pc = "rollback"
    /\ occupiedSeats' = [occupiedSeats EXCEPT
                            ![req[b].show] = DeleteSeats(@, req[b].seats)]
    /\ req' = [req EXCEPT ![b].pc = "error"]
    /\ UNCHANGED <<bookings, bookingLog, run, lastQuery>>
    /\ UNCHANGED web
    /\ UNCHANGED side
    /\ UNCHANGED timing

\* A run of releaseSeatsAndDeleteBooking that has just received its event.
\* found, isPaid, show and seats are the handler's booking variable (what
\* Booking.findById gave), occ is the occupiedSeats of its show variable, and
\* released tells that the run has saved the show without the seats.
NewRun ==
    [pc |-> "sleep", attempts |-> 0, found |-> "", isPaid |-> JSBoolean(FALSE),
     show |-> "", seats |-> <<>>, occ |-> <<>>, released |-> FALSE]

\* The deferred release check is armed: the app/checkpayment event of the new
\* Booking is sent and createBooking returns the Booking.
ScheduleCheck(b) ==
    /\ b \in DOMAIN req
    /\ req[b].pc = "schedule"
    /\ run' = run @@ (b :> NewRun)
    /\ req' = [req EXCEPT ![b].pc = "done"]
    /\ UNCHANGED <<occupiedSeats, bookings, bookingLog, lastQuery>>
    /\ UNCHANGED web
    /\ UNCHANGED side
    /\ wake' = wake @@ (b :> TenMinutesLater(clock))
    /\ UNCHANGED <<clock, created, zone>>

\* markPaid(bookingId): the payment is confirmed; the value goes through the
\* schema's cast.
MarkPaid(b) ==
    /\ b \in DOMAIN bookings
    /\ bookings' = [bookings EXCEPT ![b].isPaid = CastIsPaid(TRUE)]
    /\ UNCHANGED <<occupiedSeats, bookingLog, req, run, lastQuery>>
    /\ UNCHANGED web
    /\ UNCHANGED side
    /\ UNCHANGED timing

\* ------------------------------------------- releaseSeatsAndDeleteBooking

\* An app/checkpayment event arrives whose bookingId names no Booking.
StaleCheckPayment ==
    /\ StaleId \notin DOMAIN run
    /\ run' = run @@ (StaleId :> NewRun)
    /\ UNCHANGED <<occupiedSeats, bookings, bookingLog, req, lastQuery>>
    /\ UNCHANGED web
    /\ UNCHANGED side
    /\ wake' = wake @@ (StaleId :> TenMinutesLater(clock))
    /\ UNCHANGED <<clock, created, zone>>

\* step.sleepUntil("wait-for-10-minutes") returns.
SleepElapsed(e) ==
    /\ e \in DOMAIN run
    /\ run[e].pc = "sleep"
    /\ run' = [run EXCEPT ![e].pc = "check"]
    /\ UNCHANGED <<occupiedSeats, bookings, bookingLog, req, lastQuery>>
    /\ UNCHANGED web
    /\ UNCHANGED side
    /\ UNCHANGED timing

\* The guard of the release: if (booking.isPaid), the negation forgotten.
ReleaseWanted_Negated(booking) == Truthy(booking.isPaid)

\* The guard of the release: if (!booking.isPaid).
ReleaseWanted(booking) == ~Truthy(booking.isPaid)

\* The store operation that follows one in the release branch: the show's
\* copy is loaded and changed, then saved, then the Booking is deleted.
StepAfter(pc) ==
    CASE pc = "findShow" -> "save"
      [] pc = "save" -> "delete"
      [] pc = "delete" -> "done"

\* step.run("check-payment-status"), one store operation at a time:
\*   check     Booking.findById(bookingId) and the test of booking.isPaid; of a
\*             missing Booking findById gives null, and null.isPaid throws
\*   findShow  Show.findById(booking.show) and the deletes on the loaded copy
\*   save      show.save() writes the copy's occupiedSeats
\*   delete    Booking.findByIdAndDelete(booking._id)
CheckPaymentStatus(e) ==
    /\ e \in DOMAIN run
    /\ run[e].pc \in {"check", "findShow", "save", "delete"}
    /\ CASE run[e].pc = "check" ->
              /\ run' = [run EXCEPT ![e] =
                    IF e \notin DOMAIN bookings
                    THEN [@ EXCEPT !.pc = "failed", !.found = "null"]
                    ELSE [@ EXCEPT !.pc = IF ReleaseWanted(bookings[e])
                                          THEN "findShow" ELSE "done",
                                   !.found = "doc",
                                   !.isPaid = bookings[e].isPaid,
                                   !.show = bookings[e].show,
                                   !.seats = bookings[e].bookedSeats]]
              /\ UNCHANGED <<occupiedSeats, bookings>>
         [] run[e].pc = "findShow" ->
              /\ run' = [run EXCEPT ![e].pc = StepAfter("findShow"),
                            ![e].occ = DeleteSeats(occupiedSeats[run[e].show],
                                                   run[e].seats)]
              /\ UNCHANGED <<occupiedSeats, bookings>>
         [] run[e].pc = "save" ->
              /\ occupiedSeats' = [occupiedSeats EXCEPT ![run[e].show] = run[e].occ]
              /\ run' = [run EXCEPT ![e].pc = StepAfter("save"), ![e].released = TRUE]
              /\ UNCHANGED bookings
         [] run[e].pc = "delete" ->
              /\ bookings' = [b \in DOMAIN bookings \ {e} |-> bookings[b]]
              /\ run' = [run EXCEPT ![e].pc = StepAfter("delete")]
              /\ UNCHANGED occupiedSeats
    /\ UNCHANGED <<bookingLog, req, lastQuery>>
    /\ UNCHANGED web
    /\ UNCHANGED side
    /\ UNCHANGED timing

\* Inngest runs a step that threw once more.
Retry(e) ==
    /\ e \in DOMAIN run
    /\ run[e].pc = "failed"
    /\ run[e].attempts < MaxRetries
    /\ run' = [run EXCEPT ![e].pc = "check", ![e].attempts = @ + 1]
    /\ UNCHANGED <<occupiedSeats, bookings, bookingLog, req, lastQuery>>
    /\ UNCHANGED web
    /\ UNCHANGED side
    /\ UNCHANGED timing

\* ----------------------------------------------------------- getUserBookings

\* The orders of a set of ids.
Orders(S) ==
    {q \in [1 .. Cardinality(S) -> S] : \A i, j \in DOMAIN q : i # j => q[i] # q[j]}

\* sort({createdAt: -1}): no document comes before one with a larger createdAt;
\* the order among equal keys is the store's.
SortedByCreatedAtDesc(q) ==
    \A i, j \in DOMAIN q : i < j => bookings[q[i]].createdAt >= bookings[q[j]].createdAt

\* Booking.find({user}).sort({createdAt: -1}) and the response.
GetUserBookings(u) ==
    /\ \E q \in Orders({b \in DOMAIN bookings : bookings[b].user = u}) :
          /\ SortedByCreatedAtDesc(q)
          /\ lastQuery' = [user |-> u, bookings |-> q]
    /\ UNCHANGED <<occupiedSeats, bookings, bookingLog, req, run>>
    /\ UNCHANGED web
    /\ UNCHANGED side
    /\ UNCHANGED timing

\* ------------------------------------------------------- specifications

\* A booking request arrives, while fewer than limit have.
NewRequest(limit, U, S, L) ==
    /\ Len(req) < limit
    /\ \E u \in U, s \in S, seats \in L : CreateBookingCall(u, s, seats)

\* The booking flow without failures.
BookingFlow ==
    \/ \E b \in BookingIds : ClaimSeats(b)
    \/ \E b \in BookingIds : PersistBooking(b)
    \/ \E b \in BookingIds : ScheduleCheck(b)

\* The booking flow's failure of the store, and its rollback.
BookingFailure ==
    \/ \E b \in BookingIds : PersistFails(b)
    \/ \E b \in BookingIds : Rollback(b)

\* The Inngest function's steps.
ReleaseFunction ==
    \/ \E e \in EventIds : SleepElapsed(e)
    \/ \E e \in EventIds : CheckPaymentStatus(e)

\* The booking core: requests, payments and the deferred release.
Next ==
    \/ NewRequest(MaxBookings, Users, Shows, SeatLists)
    \/ BookingFlow
    \/ BookingFailure
    \/ \E b \in BookingIds : MarkPaid(b)
    \/ ReleaseFunction

Spec == Init /\ [][Next]_vars

\* The delayed task is run by Inngest: a step that can run does run.
Fairness ==
    \A e \in EventIds :
        /\ WF_vars(SleepElapsed(e))
        /\ WF_vars(CheckPaymentStatus(e))

FairSpec == Spec /\ Fairness

\* The core with events that are delivered for a Booking that does not exist,
\* and the re-runs of their failed steps.
NextRedelivery ==
    \/ Next
    \/ StaleCheckPayment
    \/ \E e \in EventIds : Retry(e)

SpecRedelivery == Init /\ [][NextRedelivery]_vars

\* The core with the bookings page of the users.
NextQuery ==
    \/ Next
    \/ \E u \in Users : GetUserBookings(u)

SpecQuery == Init /\ [][NextQuery]_vars

\* The seat traffic of one show: no failure of the store, and one request
\* more than in the core.
NextSeats ==
    \/ NewRequest(MaxBookings + 1, Users, {"X"}, SeatLists)
    \/ BookingFlow
    \/ \E b \in BookingIds : MarkPaid(b)
    \/ ReleaseFunction

SpecSeats == Init /\ [][NextSeats]_vars

\* ------------------------------------------------- the deletes of the release

\* The seat labels of a show.
SeatLabels == {"A1", "A2", "B1"}

\* The occupiedSeats objects of a show: the taken labels and their holders.
SeatMaps == UNION {[L -> Users] : L \in SUBSET SeatLabels}

\* The bookedSeats arrays the deletes are applied with.
BookedSeats == SeatLists \cup {<<"B1">>, <<"A2", "B1">>, <<"A1", "A1">>}

\* The deletes of lines 69-71 as a function of their inputs: applied to an
\* occupiedSeats object and a bookedSeats array, and applied once more to
\* their result. Nothing is loaded or saved here; the handler with its guard,
\* its Show.findById and its show.save is CheckPaymentStatus.
ApplyDeletes(occ, seats) ==
    /\ deleted' = [op |-> "delete", occ |-> occ, seats |-> seats,
                   once |-> DeleteSeats(occ, seats),
                   twice |-> DeleteSeats(DeleteSeats(occ, seats), seats)]
    /\ UNCHANGED <<fetch, favorites, favCalls>>
    /\ UNCHANGED <<occupiedSeats, bookings, bookingLog, req, run, lastQuery>>
    /\ UNCHANGED web
    /\ UNCHANGED timing

\* The deletes on every occupiedSeats object and bookedSeats array.
NextDeletes == \E occ \in SeatMaps, seats \in BookedSeats : ApplyDeletes(occ, seats)

SpecDeletes == Init /\ [][NextDeletes]_vars

\* ------------------------------------------------- makeRequestWithRetry

\* maxRetries = 6: the default of the third parameter.
DefaultMaxRetries == 6

\* initialDelay = 500: the default of the fourth parameter, in ms.
DefaultInitialDelay == 500

\* The values of maxRetries a call is made with.
RetryLimits == {0, 2, DefaultMaxRetries}

\* The values of initialDelay a call is made with.
InitialDelays == {100, DefaultInitialDelay}

\* The codes of the errors that are retried, one of them more: the
\* certificate error is retried as well.
Retryable_WithCert ==
    {"ECONNRESET", "ETIMEDOUT", "ERR_NETWORK", "SELF_SIGNED_CERT_IN_CHAIN"}

\* The codes of the errors that are retried.
Retryable == {"ECONNRESET", "ETIMEDOUT", "ERR_NETWORK"}

\* The ways axios.get settles: "ok" is a response, the others are the code
\* of the error it rejects with.
Outcomes ==
    {"ok", "ECONNRESET", "ETIMEDOUT", "ERR_NETWORK",
     "SELF_SIGNED_CERT_IN_CHAIN", "ERR_BAD_REQUEST"}

\* The ways a TMDB request of addShow settles in the catalogue.
TmdbOutcomes == {"ok", "ECONNRESET", "SELF_SIGNED_CERT_IN_CHAIN"}

\* The backoff without the - 1 of the exponent.
Backoff_NoMinusOne(initialDelay, retries) == initialDelay * 2 ^ retries

\* initialDelay * Math.pow(2, retries - 1), with retries already incremented.
Backoff(initialDelay, retries) == initialDelay * 2 ^ (retries - 1)

\* The loop's test with <= for <.
LoopHead_OffByOne(call) ==
    IF call.retries <= call.maxRetries
    THEN [call EXCEPT !.pc = "request"]
    ELSE [call EXCEPT !.pc = "thrown", !.error = "Failed", !.after = call.maxRetries]

\* while (retries < maxRetries): the next request, or after the loop the
\* Error "Failed to fetch data from url after maxRetries attempts.".
LoopHead(call) ==
    IF call.retries < call.maxRetries
    THEN [call EXCEPT !.pc = "request"]
    ELSE [call EXCEPT !.pc = "thrown", !.error = "Failed", !.after = call.maxRetries]

\* makeRequestWithRetry(url, config, maxRetries, initialDelay) is called.
StartFetch(r, maxRetries, initialDelay) ==
    /\ fetch[r].pc = "idle"
    /\ fetch' = [fetch EXCEPT ![r] =
          LoopHead([NoFetch EXCEPT !.maxRetries = maxRetries,
                                   !.initialDelay = initialDelay])]
    /\ UNCHANGED <<favorites, favCalls, deleted>>
    /\ UNCHANGED <<occupiedSeats, bookings, bookingLog, req, run, lastQuery>>
    /\ UNCHANGED web
    /\ UNCHANGED timing

\* await axios.get(url, config) settles: the response is returned, or the
\* catch block counts the retry and starts the timer of its delay, or throws
\* the error again.
Attempt(r, outcome) ==
    /\ fetch[r].pc = "request"
    /\ fetch' = [fetch EXCEPT ![r] =
          IF outcome = "ok"
          THEN [@ EXCEPT !.pc = "returned", !.attempts = @ + 1]
          ELSE IF outcome \in Retryable
          THEN [@ EXCEPT !.pc = "delay", !.attempts = @ + 1,
                         !.retries = @ + 1,
                         !.delays = Append(@, Backoff(fetch[r].initialDelay,
                                                      fetch[r].retries + 1))]
          ELSE [@ EXCEPT !.pc = "thrown", !.attempts = @ + 1,
                         !.error = outcome]]
    /\ UNCHANGED <<favorites, favCalls, deleted>>
    /\ UNCHANGED <<occupiedSeats, bookings, bookingLog, req, run, lastQuery>>
    /\ UNCHANGED web
    /\ UNCHANGED timing

\* The timer of the delay fires: the loop's test is made again.
TimerFires(r) ==
    /\ fetch[r].pc = "delay"
    /\ fetch' = [fetch EXCEPT ![r] = LoopHead(@)]
    /\ UNCHANGED <<favorites, favCalls, deleted>>
    /\ UNCHANGED <<occupiedSeats, bookings, bookingLog, req, run, lastQuery>>
    /\ UNCHANGED web
    /\ UNCHANGED timing

\* The two requests of a Promise.all, each in its own call.
NextFetch ==
    \/ \E n \in RequestNames, m \in RetryLimits, d \in InitialDelays :
          StartFetch(<<1, n>>, m, d)
    \/ \E r \in Requests, o \in Outcomes : Attempt(r, o)
    \/ \E r \in Requests : TimerFires(r)

SpecFetch == Init /\ [][NextFetch]_vars

\* Every axios.get settles and every timer fires.
FetchFairness ==
    \A r \in Requests :
        /\ WF_vars(\E o \in Outcomes : Attempt(r, o))
        /\ WF_vars(TimerFires(r))

FairSpecFetch == SpecFetch /\ FetchFairness

\* ------------------------------------------------------- updateFavorite

\* The number of updateFavorite calls.
MaxFavCalls == 3

\* The value of a property the request body does not have.
Undefined == "undefined"

\* The JSON value null.
Null == "null"

\* req.body.movieId: the id of a movie, or nothing.
MovieInputs == {"m1", "m2", Undefined}

\* JSON.stringify of an array, as Clerk receives and stores it: an undefined
\* element is written as null.
ToJSON(list) == [i \in DOMAIN list |-> IF list[i] = Undefined THEN Null ELSE list[i]]

\* favorites.includes(movieId).
Includes(list, movieId) == \E i \in DOMAIN list : list[i] = movieId

\* favorites.filter(item => item !== movieId).
Without(list, movieId) == SelectSeq(list, LAMBDA item : item # movieId)

\* The toggle without the test: the id is pushed whether listed or not.
ToggleFavorite_PushOnly(list, movieId) == Append(list, movieId)

\* if (!favorites.includes(movieId)) favorites.push(movieId)
\* else favorites = favorites.filter(item => item !== movieId).
ToggleFavorite(list, movieId) ==
    IF ~Includes(list, movieId)
    THEN Append(list, movieId)
    ELSE Without(list, movieId)

\* No updateFavorite call is between its start and its answer.
NoCallInFlight == \A c \in DOMAIN favCalls : favCalls[c].pc \in {"done", "failed"}

\* updateFavorite is called by user u with req.body.movieId.
UpdateFavoriteCall(u, movieId) ==
    /\ Len(favCalls) < MaxFavCalls
    /\ favCalls' = Append(favCalls,
          [pc |-> "getUser", user |-> u, movieId |-> movieId,
           read |-> <<>>, list |-> <<>>])
    /\ UNCHANGED <<fetch, favorites, deleted>>
    /\ UNCHANGED <<occupiedSeats, bookings, bookingLog, req, run, lastQuery>>
    /\ UNCHANGED web
    /\ UNCHANGED timing

\* await clerkClient.users.getUser(userId) returns, and the handler changes
\* its copy of privateMetadata.favorites: [] for a missing list, then the
\* toggle.
GetUser(c) ==
    /\ c \in DOMAIN favCalls
    /\ favCalls[c].pc = "getUser"
    /\ LET stored == favorites[favCalls[c].user]
           list == IF ~stored.present THEN <<>> ELSE stored.list
       IN  favCalls' = [favCalls EXCEPT ![c].pc = "update",
                           ![c].read = list,
                           ![c].list = ToggleFavorite(list, favCalls[c].movieId)]
    /\ UNCHANGED <<fetch, favorites, deleted>>
    /\ UNCHANGED <<occupiedSeats, bookings, bookingLog, req, run, lastQuery>>
    /\ UNCHANGED web
    /\ UNCHANGED timing

\* await clerkClient.users.updateUserMetadata(userId, {privateMetadata})
\* stores the handler's copy, and the handler answers success.
UpdateUserMetadata(c) ==
    /\ c \in DOMAIN favCalls
    /\ favCalls[c].pc = "update"
    /\ favorites' = [favorites EXCEPT ![favCalls[c].user] =
          [present |-> TRUE, list |-> ToJSON(favCalls[c].list)]]
    /\ favCalls' = [favCalls EXCEPT ![c].pc = "done"]
    /\ UNCHANGED <<fetch, deleted>>
    /\ UNCHANGED <<occupiedSeats, bookings, bookingLog, req, run, lastQuery>>
    /\ UNCHANGED web
    /\ UNCHANGED timing

\* A request to Clerk rejects: the catch block answers success: false, and
\* nothing is stored.
ClerkThrows(c) ==
    /\ c \in DOMAIN favCalls
    /\ favCalls[c].pc \in {"getUser", "update"}
    /\ favCalls' = [favCalls EXCEPT ![c].pc = "failed"]
    /\ UNCHANGED <<fetch, favorites, deleted>>
    /\ UNCHANGED <<occupiedSeats, bookings, bookingLog, req, run, lastQuery>>
    /\ UNCHANGED web
    /\ UNCHANGED timing

\* The steps of the calls that have started.
FavoriteSteps ==
    \/ \E c \in 1 .. MaxFavCalls : GetUser(c)
    \/ \E c \in 1 .. MaxFavCalls : UpdateUserMetadata(c)
    \/ \E c \in 1 .. MaxFavCalls : ClerkThrows(c)

\* The calls one after the other: a call starts when the one before it has
\* answered.
NextFavorites ==
    \/ NoCallInFlight /\ \E u \in Users, m \in MovieInputs : UpdateFavoriteCall(u, m)
    \/ FavoriteSteps

SpecFavorites == Init /\ [][NextFavorites]_vars

\* The calls as the server runs them: a call starts at any time.
NextFavoritesConcurrent ==
    \/ \E u \in Users, m \in MovieInputs : UpdateFavoriteCall(u, m)
    \/ FavoriteSteps

SpecFavoritesConcurrent == Init /\ [][NextFavoritesConcurrent]_vars

\* ------------------------------------------------- the release in time

\* The last minute of the clock.
MaxClock == 11

\* A minute passes.
Tick ==
    /\ clock < MaxClock
    /\ clock' = clock + 1
    /\ UNCHANGED <<created, wake, zone>>
    /\ UNCHANGED <<occupiedSeats, bookings, bookingLog, req, run, lastQuery>>
    /\ UNCHANGED web
    /\ UNCHANGED side

\* step.sleepUntil("wait-for-10-minutes", tenMinutesLater) returns: not before
\* the instant it was given.
SleepUntil(e) ==
    /\ e \in DOMAIN wake
    /\ clock >= wake[e]
    /\ SleepElapsed(e)

\* The Inngest function's steps, in time.
TimedRelease ==
    \/ \E e \in EventIds : SleepUntil(e)
    \/ \E e \in EventIds : CheckPaymentStatus(e)

\* One request at a time of the clock's choosing, its payment and the
\* deferred release.
NextTiming ==
    \/ NewRequest(MaxBookings - 1, {"u1"}, Shows, SeatLists)
    \/ BookingFlow
    \/ TimedRelease
    \/ Tick

SpecTiming == Init /\ [][NextTiming]_vars

\* --------------------------------------------------------- the Express app

\* A URL path as its tokens: "/api/show/all" is <<"/", "api", "/", "show",
\* "/", "all">>. The path of a request always begins with "/".
Path(segments) ==
    [i \in 1 .. 2 * Len(segments) |-> IF i % 2 = 1 THEN "/" ELSE segments[i \div 2]]

\* The root path "/".
RootPath == <<"/">>

\* The stack of the app, in the order of the app.use and app.get calls.
\* A layer without a path is mounted at "/"; the three middlewares call next().
AppStack ==
    << [kind |-> "use", path |-> RootPath, handler |-> "express.json", passes |-> TRUE],
       [kind |-> "use", path |-> RootPath, handler |-> "cors", passes |-> TRUE],
       [kind |-> "use", path |-> RootPath, handler |-> "clerkMiddleware", passes |-> TRUE],
       [kind |-> "get", path |-> RootPath, handler |-> "live", passes |-> FALSE],
       [kind |-> "use", path |-> Path(<<"api", "inngest">>), handler |-> "inngest",
        passes |-> FALSE],
       [kind |-> "use", path |-> Path(<<"api", "show">>), handler |-> "showRouter",
        passes |-> FALSE],
       [kind |-> "use", path |-> <<"api", "/", "booking">>, handler |-> "bookingRouter",
        passes |-> FALSE],
       [kind |-> "use", path |-> Path(<<"api", "admin">>), handler |-> "adminRouter",
        passes |-> FALSE],
       [kind |-> "use", path |-> Path(<<"api", "user">>), handler |-> "userRouter",
        passes |-> FALSE] >>

\* The methods and the paths of the requests sent to the app.
Methods == {"GET", "POST"}
RequestPaths ==
    { RootPath,
      Path(<<"api", "inngest">>),
      Path(<<"api", "show", "all">>),
      Path(<<"api", "show", "add">>),
      Path(<<"api", "booking", "create">>),
      Path(<<"api", "booking", "seats">>),
      Path(<<"api", "admin", "dashboard">>),
      Path(<<"api", "user", "bookings">>),
      Path(<<"api", "user", "favorites">>),
      Path(<<"api", "shows">>) }

\* mount is a prefix of path, token by token.
IsPrefix(mount, path) ==
    /\ Len(mount) <= Len(path)
    /\ \A i \in 1 .. Len(mount) : mount[i] = path[i]

\* app.use(mount, ...): the layer's pattern is anchored at the start of the
\* path and ends at a "/" or at the end of the path; "/" matches every path.
UseMatches(mount, path) ==
    \/ mount = RootPath
    \/ /\ IsPrefix(mount, path)
       /\ (Len(path) = Len(mount) \/ path[Len(mount) + 1] = "/")

\* The layer handles the request: an app.get route takes its method and its
\* exact path only.
LayerMatches(layer, method, path) ==
    IF layer.kind = "get"
    THEN method = "GET" /\ path = layer.path
    ELSE UseMatches(layer.path, path)

\* A request arrives at the app; the one before it has been answered.
Receive(method, path) ==
    /\ http.layer = 0 \/ http.handler # ""
    /\ http' = [method |-> method, path |-> path, layer |-> 1, handler |-> ""]
    /\ UNCHANGED <<occupiedSeats, bookings, bookingLog, req, run, lastQuery>>
    /\ UNCHANGED side
    /\ UNCHANGED timing
    /\ UNCHANGED <<showDocs, movieDocs, showAdded, resp, calls>>

\* The app offers the request to the next layer of its stack: a matching
\* middleware passes it on, a matching route or router takes it, and past
\* the last layer the app answers 404.
Dispatch ==
    /\ http.layer > 0
    /\ http.handler = ""
    /\ http' =
         IF http.layer > Len(AppStack)
         THEN [http EXCEPT !.handler = "404"]
         ELSE LET layer == AppStack[http.layer]
              IN  IF LayerMatches(layer, http.method, http.path) /\ ~layer.passes
                  THEN [http EXCEPT !.handler = layer.handler]
                  ELSE [http EXCEPT !.layer = @ + 1]
    /\ UNCHANGED <<occupiedSeats, bookings, bookingLog, req, run, lastQuery>>
    /\ UNCHANGED side
    /\ UNCHANGED timing
    /\ UNCHANGED <<showDocs, movieDocs, showAdded, resp, calls>>

\* The app serving requests.
NextRoutes ==
    \/ \E method \in Methods, path \in RequestPaths : Receive(method, path)
    \/ Dispatch

SpecRoutes == Init /\ [][NextRoutes]_vars

\* ------------------------------------------------------------------ addShow

\* Instants are minutes since the epoch (UTC), a day has MinutesPerDay.
MinutesPerDay == 1440

\* The most Show documents and app/show.added events before addShow is no
\* longer called.
MaxShowDocs == 2
MaxShowAdded == 2

\* The request bodies of addShow. "" is a missing movieId and 0 a missing
\* showPrice (both falsy); showsInput is missing, or a list of {date, time}
\* where time is an array of times or a single time. Dates are day numbers,
\* times minutes of the day (30 is 00:30, 570 is 09:30, 1410 is 23:30).
MovieIds == {"m1", "m2"}
ShowPrices == {0, 200}
TimeArray(times) == [isArray |-> TRUE, times |-> times]
TimeString(time) == [isArray |-> FALSE, times |-> <<time>>]
NoShowsInput == [present |-> FALSE, list |-> <<>>]
ShowsInput(list) == [present |-> TRUE, list |-> list]
ShowsInputs ==
    { NoShowsInput,
      ShowsInput(<<>>),
      ShowsInput(<< [date |-> 1, time |-> TimeArray(<<>>)] >>),
      ShowsInput(<< [date |-> 1, time |-> TimeArray(<<570, 1410>>)] >>),
      ShowsInput(<< [date |-> 2, time |-> TimeString(30)] >>),
      ShowsInput(<< [date |-> 1, time |-> TimeArray(<<570>>)],
                    [date |-> 1, time |-> TimeArray(<<570>>)] >>),
      ShowsInput(<< [date |-> 1, time |-> TimeArray(<<1410>>)],
                    [date |-> 2, time |-> TimeString(30)] >>),
      ShowsInput(<< [date |-> 1, time |-> TimeArray(<<570>>)],
                    [date |-> 3, time |-> TimeString(30)] >>) }

\* new Date(`${date}T${time}`): a date-time without zone is local time.
ParseLocal(date, time, tz) == date * MinutesPerDay + time - tz

\* The Show documents of one entry of showsInput, the else branch for a
\* single time left out: an entry whose time is no array gives no Show.
ShowsOfEntry_ArrayOnly(movieId, entry, showPrice, tz) ==
    [i \in 1 .. (IF entry.time.isArray THEN Len(entry.time.times) ELSE 0) |->
        [movie |-> movieId,
         showDateTime |-> ParseLocal(entry.date, entry.time.times[i], tz),
         showPrice |-> showPrice,
         occupiedSeats |-> <<>>]]

\* The Show documents of one entry of showsInput: one per time of its array,
\* or one for its single time.
ShowsOfEntry(movieId, entry, showPrice, tz) ==
    [i \in 1 .. Len(entry.time.times) |->
        [movie |-> movieId,
         showDateTime |-> ParseLocal(entry.date, entry.time.times[i], tz),
         showPrice |-> showPrice,
         occupiedSeats |-> <<>>]]

\* showsToCreate after the first n entries of showsInput.
RECURSIVE ShowsToCreate(_, _, _, _, _)
ShowsToCreate(movieId, list, showPrice, tz, n) ==
    IF n = 0 THEN <<>>
    ELSE ShowsToCreate(movieId, list, showPrice, tz, n - 1)
             \o ShowsOfEntry(movieId, list[n], showPrice, tz)

\* The basic validation: !movieId || !showsInput || showsInput.length === 0
\* || !showPrice.
RequiredFieldsMissing(movieId, showsInput, showPrice) ==
    \/ movieId = ""
    \/ ~showsInput.present
    \/ Len(showsInput.list) = 0
    \/ showPrice = 0

\* The response of a show controller.
Response(api, status, args, body) ==
    [api |-> api, status |-> status, args |-> args, body |-> body]

\* The Show documents of a call of addShow: showsToCreate.
ShowsOf(call) ==
    ShowsToCreate(call.movieId, call.showsInput.list, call.showPrice, zone,
                  Len(call.showsInput.list))

\* The calls of addShow whose Show documents are not inserted yet.
Inserting == {s \in CallSlots : calls[s].pc \in {"findMovie", "tmdb", "create", "insertMany"}}

\* The number of Show documents the calls of a set are still to insert.
RECURSIVE Pending(_)
Pending(S) ==
    IF S = {} THEN 0
    ELSE LET s == CHOOSE s \in S : TRUE
         IN  Len(ShowsOf(calls[s])) + Pending(S \ {s})

\* No call is served in the slot, and no request of an earlier call of the
\* slot is still under way.
Idle(s) ==
    /\ calls[s].pc = "free"
    /\ \A n \in RequestNames : fetch[<<s, n>>].pc \in {"idle", "returned", "thrown"}

\* The first slot that is idle.
FirstIdle(s) ==
    /\ Idle(s)
    /\ \A t \in CallSlots : t < s => ~Idle(t)

\* The requests of a slot that have settled are dropped with their call.
Dropped(s) ==
    [r \in Requests |->
        IF r[1] = s /\ fetch[r].pc \in {"returned", "thrown"} THEN NoFetch
        ELSE fetch[r]]

\* The handler of slot s answers with the status and is done.
Answer(s, status) ==
    /\ resp' = Response(calls[s].api, status, <<>>, <<>>)
    /\ calls' = [calls EXCEPT ![s] = NoCall]

\* addShow up to its first await: the validation answers 400 at once; else
\* Movie.findById(movieId) is awaited.
AddShow(s, movieId, showsInput, showPrice) ==
    /\ Idle(s)
    /\ Len(showDocs) + Pending(Inserting) < MaxShowDocs
    /\ Len(showAdded) < MaxShowAdded
    /\ IF RequiredFieldsMissing(movieId, showsInput, showPrice)
       THEN /\ resp' = Response("addShow", 400, <<>>, <<>>)
            /\ UNCHANGED <<calls, fetch>>
       ELSE /\ calls' = [calls EXCEPT ![s] =
                  [NoCall EXCEPT !.api = "addShow", !.pc = "findMovie",
                                 !.movieId = movieId, !.showsInput = showsInput,
                                 !.showPrice = showPrice]]
            /\ fetch' = Dropped(s)
            /\ UNCHANGED resp
    /\ UNCHANGED <<http, showDocs, movieDocs, showAdded>>
    /\ UNCHANGED <<favorites, favCalls, deleted>>
    /\ UNCHANGED <<occupiedSeats, bookings, bookingLog, req, run, lastQuery>>
    /\ UNCHANGED timing

\* What addShow awaits once it has its movie: Show.insertMany when
\* showsToCreate is not empty, else inngest.send.
AfterMovie(call) == IF Len(ShowsOf(call)) > 0 THEN "insertMany" ELSE "send"

\* await Movie.findById(movieId) answers: with the Movie the handler goes on
\* to the shows; without it the two TMDB requests are started together.
MovieFindById(s) ==
    /\ calls[s].api = "addShow"
    /\ calls[s].pc = "findMovie"
    /\ IF calls[s].movieId \in movieDocs
       THEN /\ calls' = [calls EXCEPT ![s].pc = AfterMovie(calls[s])]
            /\ UNCHANGED fetch
       ELSE /\ calls' = [calls EXCEPT ![s].pc = "tmdb"]
            /\ fetch' = [r \in Requests |->
                  IF r[1] = s
                  THEN LoopHead([NoFetch EXCEPT !.maxRetries = DefaultMaxRetries,
                                                !.initialDelay = DefaultInitialDelay])
                  ELSE fetch[r]]
    /\ UNCHANGED <<http, showDocs, movieDocs, showAdded, resp>>
    /\ UNCHANGED <<favorites, favCalls, deleted>>
    /\ UNCHANGED <<occupiedSeats, bookings, bookingLog, req, run, lastQuery>>
    /\ UNCHANGED timing

\* Promise.all resolves: both requests have returned, and Movie.create is
\* awaited.
TmdbResolved(s) ==
    /\ calls[s].pc = "tmdb"
    /\ \A n \in RequestNames : fetch[<<s, n>>].pc = "returned"
    /\ calls' = [calls EXCEPT ![s].pc = "create"]
    /\ fetch' = Dropped(s)
    /\ UNCHANGED <<http, showDocs, movieDocs, showAdded, resp>>
    /\ UNCHANGED <<favorites, favCalls, deleted>>
    /\ UNCHANGED <<occupiedSeats, bookings, bookingLog, req, run, lastQuery>>
    /\ UNCHANGED timing

\* Promise.all rejects with the first request that throws: the catch block
\* answers 500, and the other request goes on by itself.
TmdbRejected(s) ==
    /\ calls[s].pc = "tmdb"
    /\ \E n \in RequestNames : fetch[<<s, n>>].pc = "thrown"
    /\ Answer(s, 500)
    /\ fetch' = Dropped(s)
    /\ UNCHANGED <<http, showDocs, movieDocs, showAdded>>
    /\ UNCHANGED <<favorites, favCalls, deleted>>
    /\ UNCHANGED <<occupiedSeats, bookings, bookingLog, req, run, lastQuery>>
    /\ UNCHANGED timing

\* await Movie.create(MovieDetails) answers: the Movie is stored, or the
\* store rejects an _id that another call has stored meanwhile (500).
MovieCreate(s) ==
    /\ calls[s].pc = "create"
    /\ IF calls[s].movieId \in movieDocs
       THEN /\ Answer(s, 500)
            /\ UNCHANGED movieDocs
       ELSE /\ movieDocs' = movieDocs \cup {calls[s].movieId}
            /\ calls' = [calls EXCEPT ![s].pc = AfterMovie(calls[s])]
            /\ UNCHANGED resp
    /\ UNCHANGED <<http, showDocs, showAdded>>
    /\ UNCHANGED side
    /\ UNCHANGED <<occupiedSeats, bookings, bookingLog, req, run, lastQuery>>
    /\ UNCHANGED timing

\* await Show.insertMany(showsToCreate) answers: the documents are stored in
\* their order, and inngest.send is awaited.
ShowInsertMany(s) ==
    /\ calls[s].pc = "insertMany"
    /\ showDocs' = showDocs \o ShowsOf(calls[s])
    /\ calls' = [calls EXCEPT ![s].pc = "send"]
    /\ UNCHANGED <<http, movieDocs, showAdded, resp>>
    /\ UNCHANGED side
    /\ UNCHANGED <<occupiedSeats, bookings, bookingLog, req, run, lastQuery>>
    /\ UNCHANGED timing

\* Show.insertMany rejects at its document k + 1: the k documents before it
\* stay stored (the insert is ordered), and the catch block answers 500.
InsertManyRejects(s, k) ==
    /\ calls[s].pc = "insertMany"
    /\ k < Len(ShowsOf(calls[s]))
    /\ showDocs' = showDocs \o SubSeq(ShowsOf(calls[s]), 1, k)
    /\ Answer(s, 500)
    /\ UNCHANGED <<http, movieDocs, showAdded>>
    /\ UNCHANGED side
    /\ UNCHANGED <<occupiedSeats, bookings, bookingLog, req, run, lastQuery>>
    /\ UNCHANGED timing

\* await inngest.send({name: "app/show.added"}) answers: the event is sent,
\* and the handler answers success.
InngestSend(s) ==
    /\ calls[s].api = "addShow"
    /\ calls[s].pc = "send"
    /\ showAdded' = Append(showAdded, calls[s].movieId)
    /\ Answer(s, 200)
    /\ UNCHANGED <<http, showDocs, movieDocs>>
    /\ UNCHANGED side
    /\ UNCHANGED <<occupiedSeats, bookings, bookingLog, req, run, lastQuery>>
    /\ UNCHANGED timing

\* Movie.findById, Movie.create or inngest.send rejects: nothing is written
\* by it, and the catch block answers 500.
AddShowThrows(s) ==
    /\ calls[s].api = "addShow"
    /\ calls[s].pc \in {"findMovie", "create", "send"}
    /\ Answer(s, 500)
    /\ UNCHANGED <<http, showDocs, movieDocs, showAdded>>
    /\ UNCHANGED side
    /\ UNCHANGED <<occupiedSeats, bookings, bookingLog, req, run, lastQuery>>
    /\ UNCHANGED timing

\* The showsInput that only the catalogue is filled with.
CatalogueOnly ==
    { ShowsInput(<< [date |-> 1, time |-> TimeArray(<<1410>>)],
                    [date |-> 2, time |-> TimeString(30)] >>),
      ShowsInput(<< [date |-> 1, time |-> TimeArray(<<570>>)],
                    [date |-> 3, time |-> TimeString(30)] >>) }

\* The inputs of addShow: a movieId or none, every showsInput and showPrice.
AddShowInputs ==
    [movieId : {"m1", ""}, showsInput : ShowsInputs \ CatalogueOnly,
     showPrice : ShowPrices]

\* The admin calls addShow with an input of the set; the call is served in
\* the first idle slot.
AddShowCalls(inputs) ==
    \E s \in CallSlots, i \in inputs :
        /\ FirstIdle(s)
        /\ AddShow(s, i.movieId, i.showsInput, i.showPrice)

\* The awaits of addShow answer.
AddShowAwaits ==
    \/ \E s \in CallSlots : MovieFindById(s)
    \/ \E s \in CallSlots : TmdbResolved(s)
    \/ \E s \in CallSlots : MovieCreate(s)
    \/ \E s \in CallSlots : ShowInsertMany(s)
    \/ \E s \in CallSlots : InngestSend(s)

\* The awaits of addShow reject.
AddShowRejects ==
    \/ \E s \in CallSlots : TmdbRejected(s)
    \/ \E s \in CallSlots, k \in 0 .. 1 : InsertManyRejects(s, k)
    \/ \E s \in CallSlots : AddShowThrows(s)

\* The number of axios.get of the requests of a set that have failed.
RECURSIVE FailedAttempts(_)
FailedAttempts(R) ==
    IF R = {} THEN 0
    ELSE LET r == CHOOSE r \in R : TRUE
         IN  fetch[r].attempts - (IF fetch[r].pc = "returned" THEN 1 ELSE 0)
               + FailedAttempts(R \ {r})

\* The TMDB requests of the calls: an axios.get settles, a timer fires; of
\* the requests under way no more than MaxFetchFailures attempts fail.
TmdbRequests ==
    \/ \E r \in Requests, o \in TmdbOutcomes :
          /\ o # "ok" => FailedAttempts(Requests) < MaxFetchFailures
          /\ Attempt(r, o)
    \/ \E r \in Requests : TimerFires(r)

\* The show catalogue under the admin's addShow calls.
NextAddShow ==
    \/ AddShowCalls(AddShowInputs)
    \/ AddShowAwaits
    \/ AddShowRejects
    \/ TmdbRequests

SpecAddShow == InitZones /\ [][NextAddShow]_vars

\* ------------------------------------------------------ getShows and getShow

\* The values of new Date() at the calls of getShows and getShow.
Nows == {MinutesPerDay, MinutesPerDay + 600, 2 * MinutesPerDay - 280,
         3 * MinutesPerDay}

\* The Show documents with showDateTime >= now ($gte), the movie given or any.
Upcoming(now) == {i \in DOMAIN showDocs : showDocs[i].showDateTime >= now}
UpcomingOf(movieId, now) == {i \in Upcoming(now) : showDocs[i].movie = movieId}

\* The documents come in any order: the sort is missing.
AscendingByShowDateTime_Unsorted(q) == TRUE

\* sort({showDateTime: 1}): no document comes before one with a smaller
\* showDateTime; the order among equal keys is the store's.
AscendingByShowDateTime(q) ==
    \A i, j \in DOMAIN q :
        i < j => showDocs[q[i]].showDateTime <= showDocs[q[j]].showDateTime

\* uniqueMovies after the first n shows of q: a Map keeps its keys in the
\* order of their first set; populate gives null for a Movie that is gone.
RECURSIVE UniqueMovies(_, _)
UniqueMovies(q, n) ==
    IF n = 0 THEN <<>>
    ELSE LET before == UniqueMovies(q, n - 1)
             movie == showDocs[q[n]].movie
         IN  IF movie \in movieDocs /\ movie \notin Range(before)
             THEN Append(before, movie)
             ELSE before

\* getShows: Show.find({showDateTime: {$gte: new Date()}}).populate("movie")
\* .sort({showDateTime: 1}) answers the upcoming shows in ascending order of
\* start, and the handler reduces them to the movies in the order of their
\* first show.
GetShows(now) ==
    /\ \E q \in Orders(Upcoming(now)) :
          /\ AscendingByShowDateTime(q)
          /\ resp' = Response("getShows", 200, [now |-> now],
                              UniqueMovies(q, Len(q)))
    /\ UNCHANGED <<http, showDocs, movieDocs, showAdded, calls>>
    /\ UNCHANGED side
    /\ UNCHANGED <<occupiedSeats, bookings, bookingLog, req, run, lastQuery>>
    /\ UNCHANGED timing

\* The query of getShows rejects: the catch block answers 500.
GetShowsThrows(now) ==
    /\ resp' = Response("getShows", 500, [now |-> now], <<>>)
    /\ UNCHANGED <<http, showDocs, movieDocs, showAdded, calls>>
    /\ UNCHANGED side
    /\ UNCHANGED <<occupiedSeats, bookings, bookingLog, req, run, lastQuery>>
    /\ UNCHANGED timing

\* toISOString().split("T")[0]: the UTC calendar date, as a day number.
ISODate(t) == t \div MinutesPerDay

\* The character ":" in a time string: in the collation of localeCompare
\* punctuation comes before the digits, ":" before "0".
Colon == -1

\* The time string with the hour not padded to two digits: "9:30".
ISOTime_Unpadded(t) ==
    LET h == (t % MinutesPerDay) \div 60
        m == (t % MinutesPerDay) % 60
    IN  (IF h < 10 THEN <<h>> ELSE <<h \div 10, h % 10>>)
            \o <<Colon, m \div 10, m % 10>>

\* toISOString().split("T")[1].substring(0, 5): the UTC time "HH:MM", as its
\* characters.
ISOTime(t) ==
    LET h == (t % MinutesPerDay) \div 60
        m == (t % MinutesPerDay) % 60
    IN  <<h \div 10, h % 10, Colon, m \div 10, m % 10>>

\* a.localeCompare(b) < 0 for strings of digits and colons: a has the
\* character that collates first (":" < "0" < ... < "9") at the first place
\* where they differ, or a is a proper prefix of b.
LocaleBefore(a, b) ==
    \/ \E i \in 1 .. Len(a) :
          /\ i <= Len(b)
          /\ a[i] < b[i]
          /\ \A j \in 1 .. i - 1 : a[j] = b[j]
    \/ /\ Len(a) < Len(b)
       /\ \A j \in 1 .. Len(a) : a[j] = b[j]

\* entries.sort((a, b) => a.time.localeCompare(b.time)): the sort is stable.
SortByTime(entries) ==
    LET n == Len(entries)
        p == CHOOSE p \in Orders(1 .. n) :
                \A i, j \in 1 .. n :
                    i < j => /\ ~LocaleBefore(entries[p[j]].time, entries[p[i]].time)
                             /\ entries[p[i]].time = entries[p[j]].time => p[i] < p[j]
    IN  [i \in 1 .. n |-> entries[p[i]]]

\* dateTime: under each date the {time, showId} of the shows of q, sorted by
\* time.
DateTime(q) ==
    [d \in {ISODate(showDocs[i].showDateTime) : i \in Range(q)} |->
        LET OnDate(i) == ISODate(showDocs[i].showDateTime) = d
            shows == SelectSeq(q, OnDate)
        IN  SortByTime([k \in 1 .. Len(shows) |->
                           [time |-> ISOTime(showDocs[shows[k]].showDateTime),
                            showId |-> shows[k]]])]

\* getShow up to its first await: new Date() is taken and
\* Show.find({movie, showDateTime: {$gte}}).sort({showDateTime: 1}) is awaited.
GetShow(s, movieId, now) ==
    /\ Idle(s)
    /\ calls' = [calls EXCEPT ![s] =
          [NoCall EXCEPT !.api = "getShow", !.pc = "find",
                         !.movieId = movieId, !.now = now]]
    /\ UNCHANGED <<http, showDocs, movieDocs, showAdded, resp>>
    /\ UNCHANGED side
    /\ UNCHANGED <<occupiedSeats, bookings, bookingLog, req, run, lastQuery>>
    /\ UNCHANGED timing

\* await Show.find(...).sort(...) answers the upcoming shows of the movie in
\* ascending order of start, and Movie.findById(movieId) is awaited.
ShowFind(s) ==
    /\ calls[s].pc = "find"
    /\ \E q \in Orders(UpcomingOf(calls[s].movieId, calls[s].now)) :
          /\ AscendingByShowDateTime(q)
          /\ calls' = [calls EXCEPT ![s].pc = "findMovie", ![s].found = q]
    /\ UNCHANGED <<http, showDocs, movieDocs, showAdded, resp>>
    /\ UNCHANGED side
    /\ UNCHANGED <<occupiedSeats, bookings, bookingLog, req, run, lastQuery>>
    /\ UNCHANGED timing

\* await Movie.findById(movieId) answers: 404 when the Movie is not in the
\* database; else the shows that were found, grouped by date.
GetShowAnswers(s) ==
    /\ calls[s].api = "getShow"
    /\ calls[s].pc = "findMovie"
    /\ resp' = IF calls[s].movieId \notin movieDocs
               THEN Response("getShow", 404, <<>>, <<>>)
               ELSE Response("getShow", 200, <<>>, DateTime(calls[s].found))
    /\ calls' = [calls EXCEPT ![s] = NoCall]
    /\ UNCHANGED <<http, showDocs, movieDocs, showAdded>>
    /\ UNCHANGED side
    /\ UNCHANGED <<occupiedSeats, bookings, bookingLog, req, run, lastQuery>>
    /\ UNCHANGED timing

\* Show.find or Movie.findById of getShow rejects: the catch block answers
\* 500.
GetShowThrows(s) ==
    /\ calls[s].api = "getShow"
    /\ Answer(s, 500)
    /\ UNCHANGED <<http, showDocs, movieDocs, showAdded>>
    /\ UNCHANGED side
    /\ UNCHANGED <<occupiedSeats, bookings, bookingLog, req, run, lastQuery>>
    /\ UNCHANGED timing

\* The inputs of addShow the catalogue is filled with: shows of one movie
\* on one date, on the dates around a midnight and on one date more, and
\* shows of another movie before and after them.
CatalogueInputs ==
    { [movieId |-> "m1", showPrice |-> 200,
       showsInput |-> ShowsInput(<< [date |-> 1, time |-> TimeArray(<<570, 1410>>)] >>)],
      [movieId |-> "m1", showPrice |-> 200,
       showsInput |-> ShowsInput(<< [date |-> 2, time |-> TimeString(30)] >>)],
      [movieId |-> "m1", showPrice |-> 200,
       showsInput |-> ShowsInput(<< [date |-> 1, time |-> TimeArray(<<1410>>)],
                                    [date |-> 2, time |-> TimeString(30)] >>)],
      [movieId |-> "m2", showPrice |-> 200,
       showsInput |-> ShowsInput(<< [date |-> 1, time |-> TimeArray(<<570>>)],
                                    [date |-> 3, time |-> TimeString(30)] >>)] }

\* The show catalogue: the admin adds shows, one call at a time, while a
\* visitor lists the shows; no request to TMDB fails, the queries of the
\* visitor may.
NextShows ==
    \/ \E i \in CatalogueInputs : AddShow(1, i.movieId, i.showsInput, i.showPrice)
    \/ AddShowAwaits
    \/ \E r \in Requests : Attempt(r, "ok")
    \/ \E now \in Nows : GetShows(now)
    \/ \E movieId \in MovieIds, now \in Nows : GetShow(2, movieId, now)
    \/ \E s \in CallSlots : ShowFind(s)
    \/ \E s \in CallSlots : GetShowAnswers(s)
    \/ \E now \in Nows : GetShowsThrows(now)
    \/ \E s \in CallSlots : GetShowThrows(s)

SpecShows == InitZones /\ [][NextShows]_vars

\* ------------------------------------------------------------- the claims

\* The run for Booking b has saved the show without b's seats: b is released.
Released(b) == b \in DOMAIN run /\ run[b].released

\* The value markPaid stores in isPaid.
MarkedPaid(doc) == doc.isPaid = CastIsPaid(TRUE)

\* C1: in every reachable state, whatever the interleaving of seat claims,
\* payment confirmations and runs of the release function, the bookedSeats of
\* two Bookings on the same show, neither released nor deleted, are disjoint.
C1_NoDoubleBooking ==
    \A b1, b2 \in DOMAIN bookings :
        (/\ b1 # b2
         /\ bookings[b1].show = bookings[b2].show
         /\ ~Released(b1)
         /\ ~Released(b2))
        => Range(bookings[b1].bookedSeats) \cap Range(bookings[b2].bookedSeats) = {}

\* Two Bookings on one show, one of them paid, the other one's check done.
C1_Witness ==
    \E b1, b2 \in DOMAIN bookings :
        /\ b1 # b2
        /\ bookings[b1].show = bookings[b2].show
        /\ MarkedPaid(bookings[b1])
        /\ b2 \in DOMAIN run
        /\ run[b2].pc = "done"

\* The request's claim succeeded and its seats were neither given back by
\* the rollback nor released by the release function.
ClaimInForce(b) ==
    /\ b \in DOMAIN req
    /\ req[b].pc \in {"persist", "rollback", "schedule", "done"}
    /\ ~Released(b)

\* Two requests on the same show whose seat sets overlap.
Overlapping(b1, b2) ==
    /\ b1 # b2
    /\ req[b1].show = req[b2].show
    /\ Range(req[b1].seats) \cap Range(req[b2].seats) # {}

\* C2: of two claimSeats calls on the same show whose seat sets overlap, made
\* by requests in progress together, at most one succeeds: their claims are
\* never in force at the same time.
C2_AtMostOneClaim ==
    \A b1, b2 \in DOMAIN req :
        (Overlapping(b1, b2) /\ ClaimInForce(b1)) => ~ClaimInForce(b2)

\* One request has claimed and is still in progress, an overlapping one has
\* been refused.
C2_Witness ==
    \E b1, b2 \in DOMAIN req :
        /\ Overlapping(b1, b2)
        /\ req[b1].pc = "persist"
        /\ req[b2].pc = "rejected"

\* C3: a claimSeats call with at least one requested label already a key of
\* occupiedSeats fails, and occupiedSeats is what it was before the call.
C3_AllOrNothing ==
    [][\A b \in DOMAIN req :
          (/\ req[b].pc = "claim"
           /\ req'[b].pc # "claim"
           /\ Conflicts(occupiedSeats[req[b].show], req[b].seats) # {})
          => (req'[b].pc = "rejected" /\ occupiedSeats' = occupiedSeats)]_vars

\* A refused request one of whose seats is free.
C3_Witness ==
    \E b \in DOMAIN req :
        /\ req[b].pc = "rejected"
        /\ Range(req[b].seats) \ DOMAIN occupiedSeats[req[b].show] # {}

\* C4: when the check of the release function has loaded a Booking that was
\* never marked paid, then at the completion of the function the Booking is
\* deleted and none of its bookedSeats is a key of its show's occupiedSeats.
C4_UnpaidIsReleased ==
    [][\A e \in DOMAIN run :
          (/\ run[e].pc # "done"
           /\ run'[e].pc = "done"
           /\ run'[e].found = "doc"
           /\ run'[e].isPaid = CastIsPaid(FALSE))
          => (/\ e \notin DOMAIN bookings'
              /\ Range(run'[e].seats) \cap DOMAIN occupiedSeats'[run'[e].show] = {})]_vars

\* The seats of the request b are free and its Booking is deleted.
Freed(b) ==
    /\ b \in DOMAIN req
    /\ b \notin DOMAIN bookings
    /\ Range(req[b].seats) \cap DOMAIN occupiedSeats[req[b].show] = {}

\* C5: a Booking whose app/checkpayment event was sent and that is never
\* marked paid is eventually deleted, with its seats absent from occupiedSeats.
C5_EventuallyReleased ==
    \A b \in BookingIds :
        (b \in DOMAIN bookings /\ b \in DOMAIN run /\ ~MarkedPaid(bookings[b]))
        ~> ((b \in DOMAIN bookings /\ MarkedPaid(bookings[b])) \/ Freed(b))

\* C6: the steps of the release function for a Booking that its check found
\* marked paid change no Booking and no Show: the Booking is still there, still
\* marked paid, and each of its bookedSeats is still a key of occupiedSeats.
C6_PaidUntouched ==
    [][\A e \in DOMAIN run :
          (/\ run'[e].pc # run[e].pc
           /\ run'[e].found = "doc"
           /\ run'[e].isPaid = CastIsPaid(TRUE))
          => (/\ bookings' = bookings
              /\ occupiedSeats' = occupiedSeats
              /\ e \in DOMAIN bookings'
              /\ MarkedPaid(bookings'[e])
              /\ Range(bookings'[e].bookedSeats)
                    \subseteq DOMAIN occupiedSeats'[bookings'[e].show])]_vars

\* The function is done with a Booking it found marked paid.
C6_Witness ==
    \E e \in DOMAIN run :
        /\ run[e].pc = "done"
        /\ run[e].found = "doc"
        /\ run[e].isPaid = CastIsPaid(TRUE)
        /\ e \in DOMAIN bookings
        /\ MarkedPaid(bookings[e])
        /\ Range(bookings[e].bookedSeats) \subseteq DOMAIN occupiedSeats[bookings[e].show]

\* C7: the check of the release function for a booking id whose Booking does
\* not exist completes without an error and changes no Show and no Booking.
C7_MissingIsNoOp ==
    [][\A e \in DOMAIN run :
          (/\ run[e].pc = "check"
           /\ run'[e].pc # "check"
           /\ e \notin DOMAIN bookings)
          => (/\ run'[e].pc = "done"
              /\ bookings' = bookings
              /\ occupiedSeats' = occupiedSeats)]_vars

\* C8: the Booking that createBooking creates and returns for a show of price
\* p and n free seats has amount p * n and isPaid the boolean false, and each
\* requested seat is then a key of occupiedSeats mapped to the holder's id.
C8_CreatedBooking ==
    [][\A b \in DOMAIN req :
          (req[b].pc = "persist" /\ req'[b].pc = "schedule")
          => (/\ b \in DOMAIN bookings'
              /\ bookings'[b].amount = ShowPrice[req[b].show] * Len(req[b].seats)
              /\ bookings'[b].isPaid = JSBoolean(FALSE)
              /\ \A l \in Range(req[b].seats) :
                    /\ l \in DOMAIN occupiedSeats'[req[b].show]
                    /\ occupiedSeats'[req[b].show][l] = req[b].user)]_vars

\* C9: each key of occupiedSeats belongs to an existing Booking of that show
\* or to a createBooking call that has not returned yet; a call that returned
\* an error after its claim has left none of its seats behind.
C9_NoStrandedSeat ==
    \A s \in Shows :
        \A l \in DOMAIN occupiedSeats[s] :
            \/ \E b \in DOMAIN bookings :
                  bookings[b].show = s /\ l \in Range(bookings[b].bookedSeats)
            \/ \E b \in DOMAIN req :
                  /\ req[b].pc \in {"persist", "rollback"}
                  /\ req[b].show = s
                  /\ l \in Range(req[b].seats)

\* A call returned an error after its claim, and its seats are free.
C9_Witness ==
    \E b \in DOMAIN req :
        /\ req[b].pc = "error"
        /\ Range(req[b].seats) \cap DOMAIN occupiedSeats[req[b].show] = {}

\* The place of a Booking in the order of creation.
CreationIndex(b) == CHOOSE i \in DOMAIN bookingLog : bookingLog[i] = b

\* C10: getUserBookings answers with exactly the Bookings of the caller, the
\* one created last first.
C10_NewestFirst ==
    [][lastQuery' # lastQuery
          => (/\ Range(lastQuery'.bookings) =
                    {b \in DOMAIN bookings : bookings[b].user = lastQuery'.user}
              /\ \A i, j \in DOMAIN lastQuery'.bookings :
                    i < j => CreationIndex(lastQuery'.bookings[i])
                                > CreationIndex(lastQuery'.bookings[j]))]_vars

\* C11: a POST request to /api/booking/create is dispatched to the booking
\* router: once the app has found the handler of such a request, that handler
\* is the router mounted for the booking routes.
C11_BookingRouted ==
    (/\ http.method = "POST"
     /\ http.path = Path(<<"api", "booking", "create">>)
     /\ http.handler # "")
        => http.handler = "bookingRouter"

\* The Show documents a step has appended.
Created == [k \in 1 .. Len(showDocs') - Len(showDocs) |-> showDocs'[Len(showDocs) + k]]

\* The (entry, time) positions of a showsInput, each a (date, time) pair.
PairsOf(showsInput) ==
    {<<i, j>> \in (1 .. Len(showsInput.list)) \X (1 .. 2) :
        j <= Len(showsInput.list[i].time.times)}

\* C12: a successful addShow creates exactly one Show per (date, time) pair
\* of showsInput, each with the given movie and price and an empty
\* occupiedSeats, and no other Show: the step that takes a call to the
\* sending of its event appends, for every instant, as many Shows as pairs
\* of the input denote it, no other step of a call that answers success
\* appends or changes a Show, and no step changes a Show that existed.
C12_OneShowPerPair ==
    [][\A s \in CallSlots :
          (calls[s].api = "addShow" /\ calls'[s] # calls[s]) =>
             LET call == calls[s]
                 list == call.showsInput.list
                 InstantOf(p) == ParseLocal(list[p[1]].date, list[p[1]].time.times[p[2]],
                                            zone)
             IN  /\ Len(showDocs') >= Len(showDocs)
                 /\ \A k \in DOMAIN showDocs : showDocs'[k] = showDocs[k]
                 /\ calls'[s].pc = "send" =>
                       /\ \A k \in DOMAIN Created :
                             /\ Created[k].movie = call.movieId
                             /\ Created[k].showPrice = call.showPrice
                             /\ Created[k].occupiedSeats = <<>>
                       /\ Len(Created) = Cardinality(PairsOf(call.showsInput))
                       /\ \A p \in PairsOf(call.showsInput) :
                             Cardinality({k \in DOMAIN Created :
                                             Created[k].showDateTime = InstantOf(p)})
                               = Cardinality({r \in PairsOf(call.showsInput) :
                                                 InstantOf(r) = InstantOf(p)})
                 /\ (\/ calls'[s].pc \notin {"send", "free"}
                     \/ calls'[s].pc = "free" /\ resp'.status = 200)
                       => showDocs' = showDocs
      ]_vars

\* addShow has answered success to an input whose time is a single string
\* and then to an input of one date with an array of two times: three Shows
\* exist, the last two at the two times of the one date, and both events
\* are sent.
C12_Witness ==
    /\ resp.api = "addShow"
    /\ resp.status = 200
    /\ \A s \in CallSlots : calls[s] = NoCall
    /\ Len(showAdded) = 2
    /\ Len(showDocs) = 3
    /\ showDocs[1].showDateTime = ParseLocal(2, 30, zone)
    /\ showDocs[2].showDateTime = ParseLocal(1, 570, zone)
    /\ showDocs[3].showDateTime = ParseLocal(1, 1410, zone)

\* The input supplies no time slot: showsInput is missing, or none of its
\* entries has a time.
NoTimeSlots(showsInput) ==
    \/ ~showsInput.present
    \/ \A i \in DOMAIN showsInput.list : Len(showsInput.list[i].time.times) = 0

\* The input of addShow misses the movie reference, the price or the time
\* slots.
Invalid(movieId, showsInput, showPrice) ==
    \/ movieId = ""
    \/ showPrice = 0
    \/ NoTimeSlots(showsInput)

\* C13: addShow called with a missing movie reference, a missing price or
\* missing/empty time slots answers 400 and has no effect: the call is
\* answered 400 at once, and no step of such a call makes a Movie, a Show or
\* an app/show.added event, or answers anything else.
C13_InvalidRejected ==
    [][/\ \A s \in CallSlots, i \in AddShowInputs :
             (/\ Invalid(i.movieId, i.showsInput, i.showPrice)
              /\ AddShow(s, i.movieId, i.showsInput, i.showPrice))
               => /\ resp'.api = "addShow"
                  /\ resp'.status = 400
                  /\ calls' = calls
                  /\ UNCHANGED <<movieDocs, showDocs, showAdded>>
       /\ \A s \in CallSlots :
             (/\ calls[s].api = "addShow"
              /\ Invalid(calls[s].movieId, calls[s].showsInput, calls[s].showPrice)
              /\ calls'[s] # calls[s])
               => /\ UNCHANGED <<movieDocs, showDocs, showAdded>>
                  /\ calls'[s].pc = "free" => resp'.status = 400
      ]_vars

\* The start of the earliest show of the movie that is not before now.
EarliestUpcoming(movieId, now) ==
    CHOOSE t \in {showDocs[i].showDateTime : i \in UpcomingOf(movieId, now)} :
        \A i \in UpcomingOf(movieId, now) : t <= showDocs[i].showDateTime

\* C14: getShows returns one entry per distinct movie that has a show
\* starting not before now: no movie twice, no movie with past shows only,
\* in ascending order of the start of each movie's earliest upcoming show.
C14_UpcomingMovies ==
    [][(resp'.api = "getShows" /\ resp' # resp /\ resp'.status = 200) =>
         LET movies == resp'.body
             now == resp'.args.now
         IN  /\ \A i, j \in DOMAIN movies : i # j => movies[i] # movies[j]
             /\ Range(movies) = {m \in MovieIds : UpcomingOf(m, now) # {}}
             /\ \A i, j \in DOMAIN movies :
                   i < j => EarliestUpcoming(movies[i], now)
                              <= EarliestUpcoming(movies[j], now)
      ]_vars

\* getShows has listed two movies; the second also has a show that is past
\* and started before every show of the first.
C14_Witness ==
    /\ resp.api = "getShows"
    /\ Len(resp.body) = 2
    /\ EarliestUpcoming(resp.body[1], resp.args.now)
         < EarliestUpcoming(resp.body[2], resp.args.now)
    /\ \E i \in DOMAIN showDocs :
          /\ showDocs[i].movie = resp.body[2]
          /\ showDocs[i].showDateTime < resp.args.now

\* The entries of a getShow response: date, position under the date, entry.
EntriesOf(dateTime) ==
    {<<d, k>> \in (DOMAIN dateTime) \X (1 .. MaxShowDocs + 2) : k <= Len(dateTime[d])}

\* C15: getShow of an existing movie returns every upcoming show of the
\* movie exactly once, under the calendar date of its start, and under each
\* date in ascending order of the HH:MM strings, which is the chronological
\* order too: Show.find answers every upcoming show of the movie once, and
\* the answer for a Movie in the database is 200 with each show that was
\* found once, under its date, in that order.
C15_GroupedByDate ==
    [][\A s \in CallSlots :
          (calls[s].api = "getShow" /\ calls'[s] # calls[s]) =>
             /\ (calls[s].pc = "find" /\ calls'[s].pc = "findMovie") =>
                   /\ Range(calls'[s].found) = UpcomingOf(calls[s].movieId, calls[s].now)
                   /\ Len(calls'[s].found) = Cardinality(Range(calls'[s].found))
             /\ (/\ calls[s].pc = "findMovie"
                 /\ calls'[s].pc = "free"
                 /\ calls[s].movieId \in movieDocs
                 /\ resp'.status # 500) =>
                   LET dateTime == resp'.body
                       shows == Range(calls[s].found)
                   IN  /\ resp'.status = 200
                       /\ \A i \in shows :
                             Cardinality({e \in EntriesOf(dateTime) :
                                             dateTime[e[1]][e[2]].showId = i}) = 1
                       /\ \A e \in EntriesOf(dateTime) :
                             LET entry == dateTime[e[1]][e[2]]
                             IN  /\ entry.showId \in shows
                                 /\ showDocs[entry.showId].showDateTime \div MinutesPerDay
                                      = e[1]
                       /\ \A d \in DOMAIN dateTime : \A j, k \in DOMAIN dateTime[d] :
                             j < k =>
                                /\ ~LocaleBefore(dateTime[d][k].time, dateTime[d][j].time)
                                /\ showDocs[dateTime[d][j].showId].showDateTime
                                     <= showDocs[dateTime[d][k].showId].showDateTime
      ]_vars

\* getShow has answered with two shows under one date, at 09:30 and 23:30,
\* and a show under another date.
C15_Witness ==
    /\ resp.api = "getShow"
    /\ resp.status = 200
    /\ \E d \in DOMAIN resp.body :
          /\ Len(resp.body[d]) = 2
          /\ resp.body[d][1].time = ISOTime(570)
          /\ resp.body[d][2].time = ISOTime(1410)
    /\ Cardinality(DOMAIN resp.body) = 2

\* The release function has completed for Booking b, which its check read
\* as not paid.
Expired(b) ==
    /\ b \in DOMAIN run
    /\ run[b].pc = "done"
    /\ run[b].found = "doc"
    /\ run[b].isPaid = CastIsPaid(FALSE)

\* The requests that hold seats of show s: their claim is in force and their
\* Booking has not been through its release.
Holding(s) == {b \in DOMAIN req : req[b].show = s /\ ClaimInForce(b) /\ ~Expired(b)}

\* The seat entries of show s that those requests have made.
HeldSeats(s) ==
    [l \in UNION {Range(req[b].seats) : b \in Holding(s)} |->
        req[CHOOSE b \in Holding(s) : l \in Range(req[b].seats)].user]

\* C19: the release of a booking removes exactly the booking's bookedSeats
\* and leaves every other seat entry of the show, and every other show, as
\* it was, so that createBooking followed by the release gives back the
\* occupiedSeats from before the booking: once the release function has
\* completed for a Booking that was not paid, the occupiedSeats of every
\* show are exactly the entries of the other requests, and when that booking
\* was the only request, occupiedSeats is what it was before it (empty).
C19_ExactRelease ==
    \A e \in DOMAIN run :
        Expired(e) =>
            /\ \A s \in Shows : occupiedSeats[s] = HeldSeats(s)
            /\ Len(req) = 1 => occupiedSeats = [s \in Shows |-> <<>>]

\* C20: the release is idempotent and takes absent labels: the deletes
\* applied twice give what they give applied once, and the deletes of
\* labels that are no keys of occupiedSeats give the occupiedSeats
\* unchanged, without an error.
C20_IdempotentRelease ==
    deleted.op # "" =>
        /\ deleted.twice = deleted.once
        /\ Range(deleted.seats) \cap DOMAIN deleted.occ = {}
              => deleted.once = deleted.occ

\* The deletes of two labels were applied to a show that holds one of them
\* and another seat: the first application removed a seat, the second found
\* none of the labels.
C20_Witness ==
    /\ deleted.op = "delete"
    /\ deleted.seats = <<"A2", "B1">>
    /\ DOMAIN deleted.occ = {"A1", "B1"}
    /\ DOMAIN deleted.once = {"A1"}
    /\ deleted.twice = deleted.once

\* C25: whenever addShow sends the app/show.added event and answers
\* success, that call has created at least one Show, inserted before the
\* event is sent; a call whose insert fails sends no event: the call of a
\* step that sends the event has Show documents to create, all of them in
\* the database by then, and it answers success; a call leaves its insert
\* without an event unless the insert is done.
C25_EventAfterShows ==
    [][\A s \in CallSlots :
          (calls[s].api = "addShow" /\ calls'[s] # calls[s]) =>
             /\ showAdded' # showAdded =>
                   /\ resp'.status = 200
                   /\ Len(ShowsOf(calls[s])) > 0
                   /\ Range(ShowsOf(calls[s])) \subseteq Range(showDocs)
             /\ calls[s].pc = "insertMany" =>
                   /\ showAdded' = showAdded
                   /\ calls'[s].pc = "send"
                        => Range(ShowsOf(calls[s])) \subseteq Range(showDocs')
      ]_vars


\* C21: the payment check of a booking does not run before 10 minutes have
\* passed since the Booking was created: a run is past its sleep step, and
\* the seats of its Booking are released, only at an instant that is at least
\* SleepMinutes after the creation, and only with the sleep step behind it.
C21_CheckAfterTenMinutes ==
    \A e \in DOMAIN run :
        (run[e].pc # "sleep" \/ run[e].released) =>
            /\ e \in DOMAIN wake
            /\ clock >= wake[e]
            /\ e \in DOMAIN created => clock >= created[e] + SleepMinutes

\* The check of a Booking created after the start has run in the very
\* minute its sleep ends, ten minutes after the creation.
C21_Witness ==
    \E e \in DOMAIN run :
        /\ run[e].pc = "done"
        /\ run[e].found = "doc"
        /\ e \in DOMAIN created
        /\ created[e] > 0
        /\ clock = created[e] + SleepMinutes


\* A call of makeRequestWithRetry has returned or thrown.
Settled(r) == fetch[r].pc \in {"returned", "thrown"}

\* C22: makeRequestWithRetry always terminates and makes at most maxRetries
\* GET attempts: a call that has started settles; it returns on its first
\* successful attempt, every attempt before it a retried failure, and a
\* settled call makes no further step; when maxRetries attempts have failed
\* with a retried code it throws the "Failed to fetch data ... after
\* maxRetries attempts." error, and that error is thrown after exactly
\* maxRetries attempts.
C22_Terminates ==
    /\ [](\A r \in Requests :
            /\ fetch[r].attempts <= fetch[r].maxRetries
            /\ fetch[r].pc = "returned" => fetch[r].attempts = fetch[r].retries + 1
            /\ fetch[r].error = "Failed" =>
                  /\ fetch[r].pc = "thrown"
                  /\ fetch[r].attempts = fetch[r].maxRetries
                  /\ fetch[r].after = fetch[r].maxRetries
            /\ (fetch[r].pc \in {"request", "thrown"}
                  /\ fetch[r].retries = fetch[r].maxRetries) =>
                  fetch[r].error = "Failed")
    /\ [][\A r \in Requests : Settled(r) => fetch'[r] = fetch[r]]_vars
    /\ \A r \in Requests : (fetch[r].pc # "idle") ~> Settled(r)

\* A call with the defaults has thrown after six failed attempts, the other
\* has returned on its third attempt.
C22_Witness ==
    /\ fetch[<<1, "details">>].maxRetries = DefaultMaxRetries
    /\ fetch[<<1, "details">>].error = "Failed"
    /\ fetch[<<1, "details">>].attempts = 6
    /\ fetch[<<1, "credits">>].pc = "returned"
    /\ fetch[<<1, "credits">>].attempts = 3

\* The codes axios.get rejects with that are not among ECONNRESET, ETIMEDOUT
\* and ERR_NETWORK.
NotRetried == Outcomes \ {"ok", "ECONNRESET", "ETIMEDOUT", "ERR_NETWORK"}

\* C23: an attempt that fails with a code that is not retried, the
\* certificate error among them, throws that error at once: the call is
\* thrown with the code, no delay is added and no retry counted, whatever
\* the number of retried failures before it, and no attempt follows.
C23_RethrownAtOnce ==
    [][\A r \in Requests :
          /\ \A o \in NotRetried :
                Attempt(r, o) =>
                    /\ fetch'[r].pc = "thrown"
                    /\ fetch'[r].error = o
                    /\ fetch'[r].delays = fetch[r].delays
                    /\ fetch'[r].retries = fetch[r].retries
                    /\ fetch'[r].attempts = fetch[r].attempts + 1
          /\ (fetch[r].pc = "thrown" /\ fetch[r].error \in NotRetried) =>
                fetch'[r] = fetch[r]
      ]_vars

\* The certificate error is thrown by the third attempt, after two retried
\* failures and their two delays.
C23_Witness ==
    \E r \in Requests :
        /\ fetch[r].pc = "thrown"
        /\ fetch[r].error = "SELF_SIGNED_CERT_IN_CHAIN"
        /\ fetch[r].attempts = 3
        /\ Len(fetch[r].delays) = 2

\* C24: the delay after the k-th retried failure is initialDelay * 2^(k-1)
\* ms, k = 1 .. maxRetries: each delay is twice the one before it, and with
\* the defaults the delays are 500, 1000, 2000, 4000, 8000, 16000.
C24_ExponentialBackoff ==
    \A r \in Requests :
        LET d == fetch[r].delays IN
        /\ Len(d) = fetch[r].retries
        /\ Len(d) <= fetch[r].maxRetries
        /\ \A k \in DOMAIN d :
              /\ k = 1 => d[k] = fetch[r].initialDelay
              /\ k > 1 => d[k] = 2 * d[k - 1]
        /\ (fetch[r].initialDelay = 500 /\ fetch[r].maxRetries = 6) =>
              d = SubSeq(<<500, 1000, 2000, 4000, 8000, 16000>>, 1, Len(d))

\* The six delays of a call with the defaults, all of whose attempts failed.
C24_Witness ==
    \E r \in Requests :
        /\ fetch[r].initialDelay = DefaultInitialDelay
        /\ fetch[r].delays = <<500, 1000, 2000, 4000, 8000, 16000>>
        /\ fetch[r].error = "Failed"


\* No value is listed twice.
NoDuplicates(list) == \A i, j \in DOMAIN list : i # j => list[i] # list[j]

\* The favorites of a user as stored: the empty list for a missing one.
Stored(u) == IF favorites[u].present THEN favorites[u].list ELSE <<>>

\* The step in which call c stores its list and answers success.
Succeeds(c) ==
    /\ c \in DOMAIN favCalls
    /\ favCalls[c].pc = "update"
    /\ favCalls'[c].pc = "done"

\* The toggle of call c, from the stored list before its answer to the one
\* after it.
Toggled(c) ==
    LET u == favCalls[c].user
        m == favCalls[c].movieId
        before == Stored(u)
        after == favorites'[u].list
    IN  /\ Includes(after, m) <=> ~Includes(before, m)
        /\ \A x \in (Range(before) \cup Range(after)) \ {m} :
              Includes(after, x) <=> Includes(before, x)
        /\ NoDuplicates(before) => NoDuplicates(after)
        /\ \A b \in 1 .. c - 1 :
              (/\ favCalls[b].user = u
               /\ favCalls[b].movieId = m
               /\ favCalls[b].pc = "done"
               /\ \A k \in b + 1 .. c - 1 : favCalls[k].user = u => favCalls[k].pc = "failed")
              => Range(after) = Range(favCalls[b].read)

\* C26: updateFavorite toggles the membership of movieId: after a call that
\* answers success the list contains movieId if and only if it did not
\* before, the membership of every other movie is unchanged, a list without
\* duplicates stays without duplicates, and the second of two successive
\* calls with the same movieId restores the set of favorites the first found.
C26_Toggle ==
    [][\A c \in 1 .. MaxFavCalls : Succeeds(c) => Toggled(c)]_vars

\* The same for the calls whose body carries a movieId.
ToggleOfPresentIds ==
    [][\A c \in 1 .. MaxFavCalls :
          (Succeeds(c) /\ favCalls[c].movieId # Undefined) => Toggled(c)]_vars

\* C27: two updateFavorite calls of one user for two different movies, run
\* concurrently, both take effect: when both have answered success the
\* favorites are those of the two toggles applied one after the other, for
\* every interleaving of their reads and writes.
C27_BothTakeEffect ==
    (/\ Len(favCalls) = 2
     /\ favCalls[1].user = favCalls[2].user
     /\ favCalls[1].movieId # favCalls[2].movieId
     /\ Undefined \notin {favCalls[1].movieId, favCalls[2].movieId}
     /\ favCalls[1].pc = "done"
     /\ favCalls[2].pc = "done")
    => Range(Stored(favCalls[1].user))
         = Range(ToggleFavorite(ToggleFavorite(<<>>, favCalls[1].movieId),
                                favCalls[2].movieId))

====
